---- MODULE Spec2Model ----
(***************************************************************************)
(* Model of the chat server: the connection registry (ConnectionManager),  *)
(* the per-connection session handler (websocket_endpoint), the heartbeat  *)
(* scanner (_heartbeat_loop) and the message processor (process_message).  *)
(*                                                                         *)
(* The server runs on one asyncio event loop: a coroutine runs without     *)
(* interruption from one await that suspends to the next.  Every action    *)
(* below is one such run-to-suspension segment of the code.                *)
(*                                                                         *)
(* Spec       the registry, the session handlers and the heartbeat scanner *)
(* SpecProc   concurrent runs of MessageProcessor.process_message          *)
(* SpecReply  the same runs, each followed by the handler's reply loop     *)
(* SpecLatch  the same runs and the LLM rate-limit latch as time passes    *)
(* SpecFair   the handlers and the scanner under a fair event loop         *)
(* SpecIntake the handler's dispatch of one inbound frame and              *)
(*            validate_message                                             *)
(* SpecWrite  the retry loop of DatabaseManager.save_message / save_reply  *)
(* SpecAnswer the session handlers, each with the run of process_message   *)
(*            for the message it admitted                                  *)
(***************************************************************************)
EXTENDS Integers, FiniteSets, Sequences, TLC

(***************************************************************************)
(* Bounds of the model.  The two admission caps are 50 and 500 in the      *)
(* source (connection_manager.py:19-20); the model runs the same guards    *)
(* with caps small enough for the sessions of the model to fill them.      *)
(***************************************************************************)
MAX_SENDING == 1
MAX_PROCESSING == 1
MaxTime == 90
\* Number of persistence calls made in SpecWrite.
MaxCalls == 3

Sess == {1, 2}
Clients == {"a", "b"}
Timezones == {"UTC"}

HEARTBEAT_INTERVAL == 30
HEARTBEAT_TIMEOUT == 60

\* Time advances in steps of one scan interval.
Tick == HEARTBEAT_INTERVAL

NoSession == 0
NoTime == -1
NoTz == "none"
NoClient == "none"
\* the handler's local `replies` before its first message
NoReplies == -1

\* Number of replies process_message can hand back for one message.
ReplyCounts == {1, 2, 3}

VARIABLES
  \* ConnectionManager fields
  active_connections,   \* client_id -> session whose websocket is registered
  client_timezones,     \* client_id -> timezone
  sending_clients,      \* set of client_id
  messages_processing,  \* int
  last_heartbeat,       \* client_id -> time of last heartbeat
  heartbeat_task,       \* the scanner coroutine and its locals
  \* websocket_endpoint, one coroutine per accepted transport
  pc,                   \* session -> position of the handler
  client_id,            \* session -> local client_id
  replies_left,         \* session -> replies of the current message not yet written
  ws,                   \* session -> state of the transport
  now,                  \* wall clock, seconds
  \* MessageProcessor.process_message, DatabaseManager, OpenAIClient
  run,                  \* processor run -> position and locals of process_message
  messages,             \* table messages, in insertion order
  replies,              \* table replies, in insertion order
  rate_limit_hit,       \* OpenAIClient.rate_limit_hit
  rate_limit_time,      \* OpenAIClient.rate_limit_time
  processing_count,     \* MessageProcessor.processing_count
  clients,              \* table clients: the client_ids that have a row
  \* websocket_endpoint's receive loop and validate_message
  intake,               \* the last inbound frame and what the handler made of it
  \* DatabaseManager.save_message / save_reply
  db_call               \* the write call in progress: its loop and its result

server_vars == <<active_connections, client_timezones, sending_clients,
                 messages_processing, last_heartbeat, heartbeat_task,
                 pc, client_id, replies_left, ws, now>>

proc_vars == <<run, messages, replies, rate_limit_hit, rate_limit_time,
               processing_count, clients>>

(***************************************************************************)
(* ConnectionManager.  Each method is a function from the registry (and    *)
(* the transports it closes) to the registry after the call.               *)
(***************************************************************************)
CM == [active_connections |-> active_connections,
       client_timezones |-> client_timezones,
       sending_clients |-> sending_clients,
       messages_processing |-> messages_processing,
       last_heartbeat |-> last_heartbeat,
       heartbeat_task |-> heartbeat_task,
       ws |-> ws]

SetCM(m) ==
  /\ active_connections' = m.active_connections
  /\ client_timezones' = m.client_timezones
  /\ sending_clients' = m.sending_clients
  /\ messages_processing' = m.messages_processing
  /\ last_heartbeat' = m.last_heartbeat
  /\ heartbeat_task' = m.heartbeat_task
  /\ ws' = m.ws

NoTask == [state |-> "none", wake |-> 0, current_time |-> 0, size |-> 0,
           todo |-> {}, seen |-> {}, stale |-> {}, ping |-> NoClient,
           target |-> NoSession, tasks |-> 0]

connect(m, s, c, tz) ==
  [m EXCEPT !.active_connections[c] = s, !.client_timezones[c] = tz]

start_heartbeat_unguarded(m, c, t) ==
  [m EXCEPT !.last_heartbeat[c] = t,
            !.heartbeat_task = [NoTask EXCEPT !.state = "created",
                                              !.tasks =
                                                m.heartbeat_task.tasks + 1]]

\* tasks counts the _heartbeat_loop tasks that create_task has started;
\* the loop has no exit, so each of them stays alive.
start_heartbeat(m, c, t) ==
  [m EXCEPT !.last_heartbeat[c] = t,
            !.heartbeat_task = IF @.state = "none"
                               THEN [NoTask EXCEPT !.state = "created",
                                                   !.tasks = 1]
                               ELSE @]

\* websocket.close(code=1000) on the registered transport
close(w, s) == IF w[s] = "open" THEN [w EXCEPT ![s] = "server_closed"] ELSE w

disconnect_late_heartbeat(m, c) ==
  LET s == m.active_connections[c] IN
  [m EXCEPT !.sending_clients = @ \ {c},
            !.client_timezones[c] = NoTz,
            !.last_heartbeat[c] = IF s = NoSession THEN NoTime ELSE @,
            !.active_connections[c] = NoSession,
            !.ws = IF s # NoSession THEN close(@, s) ELSE @]

disconnect(m, c) ==
  LET s == m.active_connections[c] IN
  [m EXCEPT !.sending_clients = @ \ {c},
            !.client_timezones[c] = NoTz,
            !.last_heartbeat[c] = NoTime,
            !.active_connections[c] = NoSession,
            !.ws = IF s # NoSession THEN close(@, s) ELSE @]

start_sending_unguarded(m, c) ==
  [ok |-> TRUE, m |-> [m EXCEPT !.sending_clients = @ \cup {c}]]

start_sending(m, c) ==
  IF Cardinality(m.sending_clients) >= MAX_SENDING
  THEN [ok |-> FALSE, m |-> m]
  ELSE [ok |-> TRUE, m |-> [m EXCEPT !.sending_clients = @ \cup {c}]]

stop_sending(m, c) == [m EXCEPT !.sending_clients = @ \ {c}]

increment_processing_unguarded(m) ==
  [ok |-> TRUE, m |-> [m EXCEPT !.messages_processing = @ + 1]]

increment_processing(m) ==
  IF m.messages_processing >= MAX_PROCESSING
  THEN [ok |-> FALSE, m |-> m]
  ELSE [ok |-> TRUE, m |-> [m EXCEPT !.messages_processing = @ + 1]]

decrement_processing(m) ==
  IF m.messages_processing > 0
  THEN [m EXCEPT !.messages_processing = @ - 1]
  ELSE m

heartbeat(m, c, t) == [m EXCEPT !.last_heartbeat[c] = t]

(***************************************************************************)
(* websocket_endpoint: the session handler.                                *)
(***************************************************************************)
\* The event loop is free: the scanner is not in the middle of the
\* synchronous part of its pass.
Suspended == heartbeat_task.state # "iter"

Goto(s, l) == pc' = [pc EXCEPT ![s] = l]

\* DatabaseManager.add_or_update_client: insert the row or update it.
add_or_update_client(rows, c) == rows \cup {c}

\* First frame carries a client_id; the client row is upserted and the
\* transport is registered (chat_server.py:48-65).
Handshake(s, c, tz) ==
  /\ Suspended /\ pc[s] = "accepted" /\ ws[s] = "open"
  /\ clients' = add_or_update_client(clients, c)
  /\ SetCM(connect(CM, s, c, tz))
  /\ client_id' = [client_id EXCEPT ![s] = c]
  /\ Goto(s, "confirm")
  /\ UNCHANGED <<replies_left, now>>
  /\ UNCHANGED <<run, messages, replies, rate_limit_hit, rate_limit_time,
                 processing_count, intake, db_call>>

HandshakeNoClientId_normal_closure(s) ==
  /\ Suspended /\ pc[s] = "accepted" /\ ws[s] = "open"
  /\ ws' = [ws EXCEPT ![s] = "server_closed"]
  /\ Goto(s, "terminal")
  /\ UNCHANGED <<active_connections, client_timezones, sending_clients,
                 messages_processing, last_heartbeat, heartbeat_task,
                 client_id, replies_left, now>>
  /\ UNCHANGED <<proc_vars, intake, db_call>>

\* First frame without client_id: error frame, close(1008), return; the
\* finally block has no client_id to disconnect.
HandshakeNoClientId(s) ==
  /\ Suspended /\ pc[s] = "accepted" /\ ws[s] = "open"
  /\ ws' = [ws EXCEPT ![s] = "policy_closed"]
  /\ Goto(s, "terminal")
  /\ UNCHANGED <<active_connections, client_timezones, sending_clients,
                 messages_processing, last_heartbeat, heartbeat_task,
                 client_id, replies_left, now>>
  /\ UNCHANGED <<proc_vars, intake, db_call>>

\* db.add_or_update_client raises after client_id was read: the outer
\* handler logs and the finally block calls disconnect(client_id).
HandshakeUpsertFails(s, c) ==
  /\ Suspended /\ pc[s] = "accepted" /\ ws[s] = "open"
  /\ SetCM(disconnect(CM, c))
  /\ client_id' = [client_id EXCEPT ![s] = c]
  /\ Goto(s, "terminal")
  /\ UNCHANGED <<replies_left, now>>
  /\ UNCHANGED <<proc_vars, intake, db_call>>

\* The transport is gone before the first frame: receive_json raises,
\* client_id is still None, nothing to clean up.
HandshakeReceiveFails(s) ==
  /\ Suspended /\ pc[s] = "accepted" /\ ws[s] # "open"
  /\ Goto(s, "terminal")
  /\ UNCHANGED <<active_connections, client_timezones, sending_clients,
                 messages_processing, last_heartbeat, heartbeat_task,
                 client_id, replies_left, ws, now>>
  /\ UNCHANGED <<proc_vars, intake, db_call>>

\* The confirmation frame is written, then start_heartbeat runs.
ConfirmSent(s) ==
  /\ Suspended /\ pc[s] = "confirm" /\ ws[s] = "open"
  /\ SetCM(start_heartbeat(CM, client_id[s], now))
  /\ Goto(s, "running")
  /\ UNCHANGED <<client_id, replies_left, now>>
  /\ UNCHANGED <<proc_vars, intake, db_call>>

\* Writing the confirmation frame raises: return, finally disconnect.
ConfirmFails(s) ==
  /\ Suspended /\ pc[s] = "confirm" /\ ws[s] # "open"
  /\ SetCM(disconnect(CM, client_id[s]))
  /\ Goto(s, "terminal")
  /\ UNCHANGED <<client_id, replies_left, now>>
  /\ UNCHANGED <<proc_vars, intake, db_call>>

\* {"type": "heartbeat", "data": {"message": "pong"}}
ReceivePong(s) ==
  /\ Suspended /\ pc[s] = "running" /\ ws[s] = "open"
  /\ SetCM(heartbeat(CM, client_id[s], now))
  /\ UNCHANGED <<pc, client_id, replies_left, now>>
  /\ UNCHANGED <<proc_vars, intake, db_call>>

\* Any other heartbeat frame, or a frame with is_system: continue.
ReceiveIgnored(s) ==
  /\ Suspended /\ pc[s] = "running" /\ ws[s] = "open"
  /\ UNCHANGED server_vars
  /\ UNCHANGED <<proc_vars, intake, db_call>>

ReceiveContentRefused_queued(s) ==
  /\ Suspended /\ pc[s] = "running" /\ ws[s] = "open"
  /\ ~start_sending(CM, client_id[s]).ok
  /\ SetCM(start_sending_unguarded(CM, client_id[s]).m)
  /\ Goto(s, "sending_error")
  /\ UNCHANGED <<client_id, replies_left, now>>
  /\ UNCHANGED <<proc_vars, intake, db_call>>

\* Content frame, sending gate full: the handler is about to write the
\* "Too many clients sending" error frame.
ReceiveContentRefused(s) ==
  /\ Suspended /\ pc[s] = "running" /\ ws[s] = "open"
  /\ ~start_sending(CM, client_id[s]).ok
  /\ Goto(s, "sending_error")
  /\ UNCHANGED <<active_connections, client_timezones, sending_clients,
                 messages_processing, last_heartbeat, heartbeat_task,
                 client_id, replies_left, ws, now>>
  /\ UNCHANGED <<proc_vars, intake, db_call>>

\* The error frame of a refusal at the sending gate has been written:
\* continue.  If the write raised, the receive loop ends and the finally
\* block calls disconnect(client_id).
SendingErrorWritten(s) ==
  /\ Suspended /\ pc[s] = "sending_error"
  /\ IF ws[s] = "open"
     THEN /\ Goto(s, "running")
          /\ UNCHANGED <<active_connections, client_timezones,
                         sending_clients, messages_processing,
                         last_heartbeat, heartbeat_task, ws>>
     ELSE /\ SetCM(disconnect(CM, client_id[s]))
          /\ Goto(s, "terminal")
  /\ UNCHANGED <<client_id, replies_left, now>>
  /\ UNCHANGED <<proc_vars, intake, db_call>>

\* Content frame admitted by the sending gate, validate_message raises
\* ValueError: the handler is about to write the error frame.
ReceiveContentInvalid(s) ==
  /\ Suspended /\ pc[s] = "running" /\ ws[s] = "open"
  /\ LET r == start_sending(CM, client_id[s]) IN
       /\ r.ok
       /\ SetCM(r.m)
  /\ Goto(s, "validation_error")
  /\ UNCHANGED <<client_id, replies_left, now>>
  /\ UNCHANGED <<proc_vars, intake, db_call>>

\* Content frame valid, processing gate full.
ReceiveContentNoSlot(s) ==
  /\ Suspended /\ pc[s] = "running" /\ ws[s] = "open"
  /\ LET r == start_sending(CM, client_id[s]) IN
       /\ r.ok
       /\ ~increment_processing(r.m).ok
       /\ SetCM(r.m)
  /\ Goto(s, "capacity_error")
  /\ UNCHANGED <<client_id, replies_left, now>>
  /\ UNCHANGED <<proc_vars, intake, db_call>>

\* Content frame valid, both gates taken: process_message starts.
ReceiveContentAdmitted(s) ==
  /\ Suspended /\ pc[s] = "running" /\ ws[s] = "open"
  /\ LET r == start_sending(CM, client_id[s]) IN
       /\ r.ok
       /\ LET q == increment_processing(r.m) IN
            /\ q.ok
            /\ SetCM(q.m)
  /\ Goto(s, "processing")
  /\ UNCHANGED <<client_id, replies_left, now>>
  /\ UNCHANGED <<proc_vars, intake, db_call>>

ReceiveFails_without_cleanup(s) ==
  /\ Suspended /\ pc[s] = "running" /\ ws[s] # "open"
  /\ Goto(s, "terminal")
  /\ UNCHANGED <<active_connections, client_timezones, sending_clients,
                 messages_processing, last_heartbeat, heartbeat_task,
                 client_id, replies_left, ws, now>>
  /\ UNCHANGED <<proc_vars, intake, db_call>>

\* receive_json raises because the transport is closed: the loop ends
\* and the finally block calls disconnect(client_id).
ReceiveFails(s) ==
  /\ Suspended /\ pc[s] = "running" /\ ws[s] # "open"
  /\ SetCM(disconnect(CM, client_id[s]))
  /\ Goto(s, "terminal")
  /\ UNCHANGED <<client_id, replies_left, now>>
  /\ UNCHANGED <<proc_vars, intake, db_call>>

\* Leaving the two try blocks of one message: decrement_processing,
\* then stop_sending.
release_sending_only(m, c) == stop_sending(m, c)

release(m, c) == stop_sending(decrement_processing(m), c)

ErrorFrameWritten_releasing(s) ==
  /\ Suspended /\ pc[s] \in {"validation_error", "capacity_error"}
  /\ IF ws[s] = "open"
     THEN /\ SetCM(release(CM, client_id[s]))
          /\ Goto(s, "running")
     ELSE /\ SetCM(disconnect(release(CM, client_id[s]), client_id[s]))
          /\ Goto(s, "terminal")
  /\ UNCHANGED <<client_id, replies_left, now>>
  /\ UNCHANGED <<proc_vars, intake, db_call>>

\* The error frame of a validation or capacity rejection has been
\* written (or the write raised); the finally block runs stop_sending.
ErrorFrameWritten(s) ==
  /\ Suspended /\ pc[s] \in {"validation_error", "capacity_error"}
  /\ IF ws[s] = "open"
     THEN /\ SetCM(stop_sending(CM, client_id[s]))
          /\ Goto(s, "running")
     ELSE /\ SetCM(disconnect(stop_sending(CM, client_id[s]), client_id[s]))
          /\ Goto(s, "terminal")
  /\ UNCHANGED <<client_id, replies_left, now>>
  /\ UNCHANGED <<proc_vars, intake, db_call>>

\* process_message returns its list of n replies (it never raises).
ProcessReturns(s, n) ==
  /\ Suspended /\ pc[s] = "processing"
  /\ replies_left' = [replies_left EXCEPT ![s] = n]
  /\ Goto(s, "writing")
  /\ UNCHANGED <<active_connections, client_timezones, sending_clients,
                 messages_processing, last_heartbeat, heartbeat_task,
                 client_id, ws, now>>
  /\ UNCHANGED <<proc_vars, intake, db_call>>

\* One reply frame is written, or its write raises an error that is
\* skipped; after the last one both gates are released.
WriteReply(s) ==
  /\ Suspended /\ pc[s] = "writing"
  /\ IF replies_left[s] > 1
     THEN /\ replies_left' = [replies_left EXCEPT ![s] = @ - 1]
          /\ UNCHANGED <<pc, active_connections, client_timezones,
                         sending_clients, messages_processing,
                         last_heartbeat, heartbeat_task, ws>>
     ELSE /\ replies_left' = [replies_left EXCEPT ![s] = 0]
          /\ SetCM(release(CM, client_id[s]))
          /\ Goto(s, "running")
  /\ UNCHANGED <<client_id, now>>
  /\ UNCHANGED <<proc_vars, intake, db_call>>

WriteReplyDisconnected_skipped(s) ==
  /\ Suspended /\ pc[s] = "writing" /\ ws[s] # "open"
  /\ replies_left' = [replies_left EXCEPT ![s] = 0]
  /\ SetCM(release(CM, client_id[s]))
  /\ Goto(s, "running")
  /\ UNCHANGED <<client_id, now>>
  /\ UNCHANGED <<proc_vars, intake, db_call>>

\* The write raises WebSocketDisconnect, or an error naming "code 1000"
\* or "connection": the except block is about to write an error frame.
WriteReplyDisconnected(s) ==
  /\ Suspended /\ pc[s] = "writing" /\ ws[s] # "open"
  /\ replies_left' = [replies_left EXCEPT ![s] = 0]
  /\ Goto(s, "processing_error")
  /\ UNCHANGED <<active_connections, client_timezones, sending_clients,
                 messages_processing, last_heartbeat, heartbeat_task,
                 client_id, ws, now>>
  /\ UNCHANGED <<proc_vars, intake, db_call>>

ProcessingErrorWritten_keeping_slot(s) ==
  /\ Suspended /\ pc[s] = "processing_error"
  /\ IF ws[s] = "open"
     THEN /\ SetCM(stop_sending(CM, client_id[s]))
          /\ Goto(s, "running")
     ELSE /\ SetCM(disconnect(stop_sending(CM, client_id[s]), client_id[s]))
          /\ Goto(s, "terminal")
  /\ UNCHANGED <<client_id, replies_left, now>>
  /\ UNCHANGED <<proc_vars, intake, db_call>>

\* The "Error processing message" frame is written or its write raises;
\* both finally blocks run.
ProcessingErrorWritten(s) ==
  /\ Suspended /\ pc[s] = "processing_error"
  /\ IF ws[s] = "open"
     THEN /\ SetCM(release(CM, client_id[s]))
          /\ Goto(s, "running")
     ELSE /\ SetCM(disconnect(release(CM, client_id[s]), client_id[s]))
          /\ Goto(s, "terminal")
  /\ UNCHANGED <<client_id, replies_left, now>>
  /\ UNCHANGED <<proc_vars, intake, db_call>>

\* The peer closes or loses the transport.
PeerCloses(s) ==
  /\ Suspended /\ pc[s] # "terminal" /\ ws[s] = "open"
  /\ ws' = [ws EXCEPT ![s] = "peer_closed"]
  /\ UNCHANGED <<active_connections, client_timezones, sending_clients,
                 messages_processing, last_heartbeat, heartbeat_task,
                 pc, client_id, replies_left, now>>
  /\ UNCHANGED <<proc_vars, intake, db_call>>

(***************************************************************************)
(* ConnectionManager._heartbeat_loop: the heartbeat scanner.               *)
(***************************************************************************)
HeartbeatKeys(m) == {c \in Clients : m.last_heartbeat[c] # NoTime}

\* The pass is over: asyncio.sleep(HEARTBEAT_INTERVAL) at the end of the
\* try block.
Sleep(task, t) ==
  [NoTask EXCEPT !.state = "sleep", !.wake = t + HEARTBEAT_INTERVAL,
                 !.current_time = task.current_time, !.tasks = task.tasks]

\* The pass raised: asyncio.sleep(HEARTBEAT_INTERVAL) in the except block.
Retry(task, t) ==
  [NoTask EXCEPT !.state = "retry", !.wake = t + HEARTBEAT_INTERVAL,
                 !.current_time = task.current_time, !.tasks = task.tasks]

\* The task was just created, or its sleep is over.
TimerDue ==
  \/ heartbeat_task.state = "created"
  \/ /\ heartbeat_task.state \in {"sleep", "retry"}
     /\ now >= heartbeat_task.wake

\* The for loop over last_heartbeat.items() is exhausted.
EndOfLoop(task, t) ==
  IF task.todo # {} THEN task
  ELSE IF task.stale = {} THEN Sleep(task, t)
  ELSE [task EXCEPT !.state = "evict"]

\* A pass begins: current_time is taken and the iteration starts.
ScanStart ==
  /\ TimerDue
  /\ heartbeat_task' =
       EndOfLoop([NoTask EXCEPT !.state = "iter",
                                !.tasks = heartbeat_task.tasks,
                                !.current_time = now,
                                !.size = Cardinality(HeartbeatKeys(CM)),
                                !.todo = HeartbeatKeys(CM),
                                !.seen = HeartbeatKeys(CM)], now)
  /\ UNCHANGED <<active_connections, client_timezones, sending_clients,
                 messages_processing, last_heartbeat,
                 pc, client_id, replies_left, ws, now>>
  /\ UNCHANGED <<proc_vars, intake, db_call>>

IsStale_late(age) == age > HEARTBEAT_TIMEOUT + HEARTBEAT_INTERVAL

IsStale(age) == age > HEARTBEAT_TIMEOUT

NeedsPing(age) == age > HEARTBEAT_INTERVAL

\* The loop body for one (client_id, last_time) item.
ScanVisit(c) ==
  /\ heartbeat_task.state = "iter" /\ c \in heartbeat_task.todo
  /\ LET age == heartbeat_task.current_time - last_heartbeat[c]
         rest == [heartbeat_task EXCEPT !.todo = @ \ {c}]
     IN  heartbeat_task' =
           IF IsStale(age)
           THEN EndOfLoop([rest EXCEPT !.stale = @ \cup {c}], now)
           ELSE IF NeedsPing(age) /\ active_connections[c] # NoSession
           THEN [rest EXCEPT !.state = "ping", !.ping = c,
                             !.target = active_connections[c]]
           ELSE EndOfLoop(rest, now)
  /\ UNCHANGED <<active_connections, client_timezones, sending_clients,
                 messages_processing, last_heartbeat,
                 pc, client_id, replies_left, ws, now>>
  /\ UNCHANGED <<proc_vars, intake, db_call>>

\* The ping's send_json returns or raises, and the for loop asks the
\* dict iterator for the next item: a dict whose size changed while the
\* scanner was suspended raises RuntimeError, which ends the pass.
ScanPingDone ==
  /\ heartbeat_task.state = "ping"
  /\ LET t == heartbeat_task
         keys == HeartbeatKeys(CM)
         after == [t EXCEPT !.state = "iter", !.ping = NoClient,
                            !.target = NoSession,
                            !.stale = IF ws[t.target] = "open" THEN @
                                      ELSE @ \cup {t.ping},
                            !.todo = (@ \cap keys) \cup (keys \ t.seen),
                            !.seen = @ \cup keys]
     IN  heartbeat_task' =
           IF Cardinality(keys) # t.size THEN Retry(t, now)
           ELSE EndOfLoop(after, now)
  /\ UNCHANGED <<active_connections, client_timezones, sending_clients,
                 messages_processing, last_heartbeat,
                 pc, client_id, replies_left, ws, now>>
  /\ UNCHANGED <<proc_vars, intake, db_call>>

\* One iteration of the cleanup loop: disconnect(client_id).
ScanEvict(c) ==
  /\ heartbeat_task.state = "evict" /\ c \in heartbeat_task.stale
  /\ LET t == [heartbeat_task EXCEPT !.stale = @ \ {c}]
         m == disconnect(CM, c)
     IN  SetCM([m EXCEPT !.heartbeat_task =
                  IF t.stale = {} THEN Sleep(t, now) ELSE t])
  /\ UNCHANGED <<pc, client_id, replies_left, now>>
  /\ UNCHANGED <<proc_vars, intake, db_call>>

\* asyncio.sleep(HEARTBEAT_INTERVAL) ends when the interval has elapsed:
\* the clock does not pass the scanner's wake-up time while it sleeps.
ClockTick ==
  /\ Suspended /\ ~TimerDue /\ now + Tick <= MaxTime
  /\ now' = now + Tick
  /\ UNCHANGED <<active_connections, client_timezones, sending_clients,
                 messages_processing, last_heartbeat, heartbeat_task,
                 pc, client_id, replies_left, ws>>
  /\ UNCHANGED <<proc_vars, intake, db_call>>

(***************************************************************************)
(* MessageProcessor.process_message, with the DatabaseManager tables and   *)
(* the OpenAIClient latch it uses.                                         *)
(***************************************************************************)
Procs == {1, 2}

MediaTypes == {"image", "video", "voice"}

Absent == "<absent>"

\* time_remaining of a status that is not rate-limited (None)
NoRemaining == -1000000

\* _is_time_allowed's rejection messages
RejectionMessage(message_type) ==
  CASE message_type = "text" ->
         "Text messages are only accepted between 5 AM and midnight"
    [] message_type = "voice" ->
         "Voice messages are only accepted between 8 AM and 12 PM"
    [] message_type = "video" ->
         "Video messages are only accepted between 8 PM and midnight"
    [] OTHER -> ""

\* The records validate_message hands to the processor: a media record
\* has a filename, its binary_content is the frame's content field
\* (possibly empty) and its content is cleared; an image is never
\* rejected; status_message is the rejection message or None.
ValidatedRecords ==
  { r \in { [message_type |-> k,
             content |-> IF k = "text" THEN "hi" ELSE "",
             filename |-> IF k = "text" THEN Absent ELSE "a." \o k,
             binary_content |-> b, is_accepted |-> acc,
             status_message |-> IF acc THEN Absent ELSE RejectionMessage(k)] :
             k \in {"text"} \cup MediaTypes, b \in {Absent, "", "bytes"},
             acc \in BOOLEAN } :
      /\ (r.message_type = "image" => r.is_accepted)
      /\ (r.message_type = "text" <=> r.binary_content = Absent) }

\* An inbound frame that is classified as system or heartbeat: field
\* type is "system" or "heartbeat", or is_system is truthy.
SentinelFrames ==
  { f \in [type : {"system", "heartbeat", Absent}, is_system : BOOLEAN,
           content : {"hi"}] :
      f.type \in {"system", "heartbeat"} \/ f.is_system }

\* The two tests of the receive loop that end in `continue` before the
\* sending gate (chat_server.py:106-119).
handler_skips(f) == f.type = "heartbeat" \/ f.is_system

\* validate_message's first branch: the record of kind system.
SystemRecord(f) ==
  [message_type |-> "system", content |-> f.content, filename |-> Absent,
   binary_content |-> Absent, is_accepted |-> TRUE,
   status_message |-> Absent]

\* The records the handler passes to process_message: what
\* validate_message returns for the frames the handler does not skip.
HandledRecords ==
  ValidatedRecords
    \cup {SystemRecord(f) : f \in {g \in SentinelFrames : ~handler_skips(g)}}

NoMessage == [message_type |-> "none", content |-> "", filename |-> Absent,
              binary_content |-> Absent, is_accepted |-> TRUE,
              status_message |-> Absent]

Idle == [pc |-> "idle", message |-> NoMessage, content_to_save |-> "",
         message_id |-> 0, rate_limited |-> FALSE,
         time_remaining |-> NoRemaining, minutes_remaining |-> 0,
         text_reply_content |-> "", out |-> <<>>, returned |-> <<>>,
         outcome |-> "none", llm_calls |-> 0, cursor |-> 1, sent |-> <<>>]

\* A frame of the reply list.
Frame(message, id, content, reply_type, filename, mime_type) ==
  [type |-> "message", message |-> message, id |-> id, content |-> content,
   reply_type |-> reply_type, filename |-> filename, mime_type |-> mime_type]

RejectionFrame(m) == Frame(m.status_message, 0, Absent, "text", Absent, Absent)

ErrorFrame(err) ==
  Frame("Error processing message: " \o err, 0, Absent, "text", Absent, Absent)

TextFrame(id, content) == Frame(Absent, id, content, "text", Absent, Absent)

VoiceFrame(id) ==
  Frame(Absent, id, "/media/static_replies/reply.mp3", "voice",
        "reply.mp3", "audio/mpeg")

ImageFrame(id) ==
  Frame(Absent, id, "/media/static_replies/reply.png", "image",
        "reply.png", "image/png")

Rows == Len(messages) + Len(replies)

\* DatabaseManager.save_message: one row, id assigned by the table.
save_message(m, content) ==
  [id |-> Len(messages) + 1, message_type |-> m.message_type,
   content |-> content, is_accepted |-> m.is_accepted,
   status_message |-> IF m.status_message = Absent THEN "Message accepted"
                      ELSE m.status_message,
   at |-> Rows + 1]

save_reply_dangling(message_id, content, reply_type) ==
  [id |-> Len(replies) + 1, message_id |-> Len(replies) + 1, content |-> content,
   reply_type |-> reply_type, is_delivered |-> TRUE, at |-> Rows + 1]

\* DatabaseManager.save_reply
save_reply(message_id, content, reply_type) ==
  [id |-> Len(replies) + 1, message_id |-> message_id, content |-> content,
   reply_type |-> reply_type, is_delivered |-> TRUE, at |-> Rows + 1]

Return(r, frames, outcome) ==
  [r EXCEPT !.pc = "done", !.returned = frames, !.outcome = outcome]

Raise_without_reply(r, err) == Return(r, <<>>, "error")

\* except Exception as e: return the single synthetic reply
Raise(r, err) == Return(r, <<ErrorFrame(err)>>, "error")

SetRun(p, r) == run' = [run EXCEPT ![p] = r]

rejected_branch_generic(r, m) ==
  Return(r, <<Frame("Message rejected", 0, Absent, "text", Absent, Absent)>>,
         "rejected")

\* The rejected branch of process_message (lines 26-31).
rejected_branch(r, m) == Return(r, <<RejectionFrame(m)>>, "rejected")

\* process_message is called with a validated record and runs to its
\* first await: save_media for a media record, save_message for text.
Call(p, m) ==
  /\ run[p].pc = "idle"
  /\ LET r == [run[p] EXCEPT !.message = m, !.content_to_save = m.content] IN
       SetRun(p,
         IF ~m.is_accepted THEN rejected_branch(r, m)
         ELSE IF m.message_type \in MediaTypes
         THEN IF m.filename = Absent
              THEN Raise(r, "Filename is required for " \o m.message_type \o " message")
              ELSE IF m.binary_content \in {Absent, ""}
              THEN Raise(r, "Binary content is required for " \o m.message_type \o " message")
              ELSE [r EXCEPT !.pc = "save_media"]
         ELSE [r EXCEPT !.pc = "save_message"])
  /\ UNCHANGED <<messages, replies, rate_limit_hit, rate_limit_time,
                 processing_count, clients>>
  /\ UNCHANGED <<server_vars, intake, db_call>>

MediaSaved_ignoring_failure(p, ok) ==
  /\ run[p].pc = "save_media"
  /\ LET r == run[p] IN
       SetRun(p,
         IF ok
         THEN [r EXCEPT !.pc = "save_message",
                        !.content_to_save = "media/" \o r.message.filename]
         ELSE [r EXCEPT !.pc = "save_message"])
  /\ UNCHANGED <<messages, replies, rate_limit_hit, rate_limit_time,
                 processing_count, clients>>
  /\ UNCHANGED <<server_vars, intake, db_call>>

\* media_handler.save_media returns a path, or None.
MediaSaved(p, ok) ==
  /\ run[p].pc = "save_media"
  /\ LET r == run[p] IN
       SetRun(p,
         IF ok
         THEN [r EXCEPT !.pc = "save_message",
                        !.content_to_save = "media/" \o r.message.filename]
         ELSE Raise(r, "Failed to save " \o r.message.message_type \o " file"))
  /\ UNCHANGED <<messages, replies, rate_limit_hit, rate_limit_time,
                 processing_count, clients>>
  /\ UNCHANGED <<server_vars, intake, db_call>>

\* OpenAIClient.rate_limit_duration, timedelta(minutes=30), in seconds
rate_limit_duration == 1800

\* OpenAIClient.get_rate_limit_status: it reads the latch, never clears it.
get_rate_limit_status ==
  IF ~rate_limit_hit
  THEN [rate_limited |-> FALSE, time_remaining |-> NoRemaining]
  ELSE [rate_limited |-> TRUE,
        time_remaining |-> rate_limit_duration - (now - rate_limit_time)]

\* OpenAIClient.is_rate_limited: its result and the latch it leaves.
is_rate_limited ==
  IF ~rate_limit_hit
  THEN [result |-> FALSE, hit |-> rate_limit_hit, time |-> rate_limit_time]
  ELSE IF now - rate_limit_time > rate_limit_duration
  THEN [result |-> FALSE, hit |-> FALSE, time |-> NoTime]
  ELSE [result |-> TRUE, hit |-> rate_limit_hit, time |-> rate_limit_time]

\* Python's int() of a quotient: truncation toward zero.
int_div(a, b) == IF a >= 0 THEN a \div b ELSE -((-a) \div b)

minutes_remaining_ceiling(time_remaining) == -((-time_remaining) \div 60)

\* minutes_remaining (line 76)
minutes_remaining(time_remaining) == int_div(time_remaining, 60) + 1

BusyPrefix == "System is currently busy. Please try again in "

\* text_reply_content of the rate-limited branch (line 77)
BusyText(n, original) ==
  BusyPrefix \o ToString(n) \o " minutes. (Original message: "
             \o original \o "...)"

Received(message_type) == "Received your " \o message_type \o " message"

busy_branch_calling_llm(r) == [r EXCEPT !.pc = "llm", !.llm_calls = @ + 1]

\* Lines 75-77: the status read before the sleep says rate-limited.
busy_branch(r) ==
  [r EXCEPT !.pc = "save_busy_reply",
            !.minutes_remaining = minutes_remaining(r.time_remaining),
            !.text_reply_content =
              BusyText(minutes_remaining(r.time_remaining), r.message.content)]

\* Lines 103-105: a message that is not text takes the canned text.
canned_branch(r) ==
  [r EXCEPT !.pc = "save_text_reply",
            !.text_reply_content = Received(r.message.message_type)]

\* db.save_message commits the Message row and the rate-limit status is
\* read.  Text, voice, video and image then sleep; any other kind goes on
\* without suspension to its first save_reply.
MessageSaved(p) ==
  /\ run[p].pc = "save_message"
  /\ LET r == run[p]
         row == save_message(r.message, r.content_to_save)
         status == get_rate_limit_status
         q == [r EXCEPT !.pc = "sleep", !.message_id = row.id,
                        !.out = <<>>,
                        !.rate_limited = status.rate_limited,
                        !.time_remaining = status.time_remaining]
     IN  /\ messages' = Append(messages, row)
         /\ SetRun(p, IF r.message.message_type \in {"text"} \cup MediaTypes
                      THEN q
                      ELSE IF q.rate_limited THEN busy_branch(q)
                      ELSE canned_branch(q))
  /\ processing_count' = processing_count + 1
  /\ UNCHANGED <<replies, rate_limit_hit, rate_limit_time, clients>>
  /\ UNCHANGED <<server_vars, intake, db_call>>

\* A persistence call raises (after its retries).
SaveFails(p) ==
  /\ run[p].pc \in {"save_message", "save_text_reply", "save_busy_reply",
                    "save_voice_reply", "save_image_reply"}
  /\ SetRun(p, Raise(run[p], "database error"))
  /\ UNCHANGED <<messages, replies, rate_limit_hit, rate_limit_time,
                 processing_count, clients>>
  /\ UNCHANGED <<server_vars, intake, db_call>>

\* The sleep ends.  Rate-limited: the busy reply is about to be saved.
\* Otherwise a text message calls get_chat_response, which answers at
\* once when is_rate_limited says so and else posts the request; any
\* other kind takes the canned text.
SleepDone(p) ==
  /\ run[p].pc = "sleep"
  /\ LET r == run[p]
         limited == is_rate_limited
     IN  IF ~r.rate_limited /\ r.message.message_type = "text"
         THEN /\ rate_limit_hit' = limited.hit
              /\ rate_limit_time' = limited.time
              /\ SetRun(p,
                   IF limited.result
                   THEN [r EXCEPT !.pc = "save_text_reply",
                                  !.llm_calls = @ + 1,
                                  !.text_reply_content =
                                    "Sorry, still rate limited. Please try again later."]
                   ELSE [r EXCEPT !.pc = "llm", !.llm_calls = @ + 1])
         ELSE /\ SetRun(p, IF r.rate_limited THEN busy_branch(r)
                           ELSE canned_branch(r))
              /\ UNCHANGED <<rate_limit_hit, rate_limit_time>>
  /\ UNCHANGED <<messages, replies, processing_count, clients>>
  /\ UNCHANGED <<server_vars, intake, db_call>>

LlmOutcomes == {"ok", "empty", "http429", "failed"}

\* OpenAIClient.get_chat_response returns: it never raises, every
\* failure comes back as an apology string; HTTP 429 sets the latch.
LlmReturns(p, res) ==
  /\ run[p].pc = "llm"
  /\ LET r == run[p] IN
       SetRun(p, [r EXCEPT !.pc = "save_text_reply",
                           !.text_reply_content =
         CASE res = "ok" -> "llm reply"
           [] res = "empty" ->
                Received(r.message.message_type) \o ": \"" \o r.message.content \o "...\""
           [] res = "http429" ->
                "Sorry, I'm receiving too many requests right now. Please try again in 30 minutes."
           [] OTHER ->
                "Sorry, I'm having trouble processing your request. Please try again later."])
  /\ rate_limit_hit' = (rate_limit_hit \/ res = "http429")
  /\ rate_limit_time' = IF res = "http429" THEN now ELSE rate_limit_time
  /\ UNCHANGED <<messages, replies, processing_count, clients>>
  /\ UNCHANGED <<server_vars, intake, db_call>>

wants_voice_for_voice_only(message_type) == message_type = "voice"

\* After the text reply: which static replies follow (lines 130, 166).
wants_voice(message_type) == message_type \in {"voice", "video", "image"}

wants_image_for_image_only(message_type) == message_type = "image"

wants_image(message_type) == message_type \in {"video", "image"}

\* db.save_reply commits a Reply row and its frame joins the list; the
\* run goes on to the next save_reply or returns the list.
ReplySaved(p) ==
  /\ run[p].pc \in {"save_text_reply", "save_busy_reply",
                    "save_voice_reply", "save_image_reply"}
  /\ LET r == run[p]
         k == r.message.message_type
         row == CASE r.pc = "save_voice_reply" ->
                       save_reply(r.message_id, VoiceFrame(0).content, "voice")
                  [] r.pc = "save_image_reply" ->
                       save_reply(r.message_id, ImageFrame(0).content, "image")
                  [] OTHER ->
                       save_reply(r.message_id, r.text_reply_content, "text")
         frame == CASE r.pc = "save_voice_reply" -> VoiceFrame(row.id)
                    [] r.pc = "save_image_reply" -> ImageFrame(row.id)
                    [] OTHER -> TextFrame(row.id, r.text_reply_content)
         q == [r EXCEPT !.out = Append(@, frame)]
     IN  /\ replies' = Append(replies, row)
         /\ SetRun(p,
              CASE r.pc = "save_text_reply" /\ wants_voice(k) ->
                     [q EXCEPT !.pc = "save_voice_reply"]
                [] r.pc = "save_voice_reply" /\ wants_image(k) ->
                     [q EXCEPT !.pc = "save_image_reply"]
                [] OTHER ->
                     Return(q, q.out,
                            IF r.pc = "save_busy_reply" THEN "busy" ELSE "ok"))
  /\ UNCHANGED <<messages, rate_limit_hit, rate_limit_time,
                 processing_count, clients>>
  /\ UNCHANGED <<server_vars, intake, db_call>>

(***************************************************************************)
(* websocket_endpoint's reply loop over the list process_message returned  *)
(* (chat_server.py:151-163).                                               *)
(***************************************************************************)
next_reply_reversed(r) == Len(r.returned) + 1 - r.cursor

\* for reply in replies: the index of the reply handed to send_json
next_reply(r) == r.cursor

\* send_json returns, raises an error that is logged and skipped, or
\* raises a disconnect that ends the loop.
WriteOutcomes == {"sent", "skipped", "disconnected"}

SendReply(p, res) ==
  /\ run[p].pc = "done" /\ run[p].cursor <= Len(run[p].returned)
  /\ LET r == run[p] IN
       SetRun(p,
         CASE res = "sent" ->
                [r EXCEPT !.cursor = @ + 1, !.sent = Append(@, next_reply(r))]
           [] res = "skipped" -> [r EXCEPT !.cursor = @ + 1]
           [] OTHER -> [r EXCEPT !.cursor = Len(r.returned) + 1])
  /\ UNCHANGED <<messages, replies, rate_limit_hit, rate_limit_time,
                 processing_count, clients>>
  /\ UNCHANGED <<server_vars, intake, db_call>>

(***************************************************************************)
(* The receive loop's dispatch of one inbound frame (chat_server.py:94-138)*)
(* and message_validator.validate_message.                                 *)
(***************************************************************************)
\* Hours of the day of a timestamp, as the hour of its instant in UTC.
Hours == 0..23

\* The timezones clients declare in the handshake.
Zones == {"UTC", "Asia/Tokyo"}

\* Hours a zone is ahead of UTC.
UtcOffset(timezone) == IF timezone = "Asia/Tokyo" THEN 9 ELSE 0

\* current_time.astimezone(ZoneInfo(timezone)).hour
astimezone_hour(current_hour_utc, timezone) ==
  (current_hour_utc + UtcOffset(timezone)) % 24

\* MessageType
MessageTypeValues == {"text", "image", "video", "voice", "system", "heartbeat"}

\* The inbound frames: the JSON fields the code reads, binary being the
\* bytes of a binary frame received before this (metadata) frame.
Frames ==
  [type : {Absent, "heartbeat", "system"}, is_system : BOOLEAN,
   message_type : {Absent, "text", "image", "video", "voice", "gif"},
   content : {Absent, "", "hi"}, filename : {Absent, "a.png"},
   binary : {Absent, "bytes"}, hour : Hours]

is_time_allowed_voice_until_one(current_hour_utc, message_type, timezone) ==
  LET current_hour == astimezone_hour(current_hour_utc, timezone) IN
    CASE message_type = "text" ->
           IF 5 <= current_hour /\ current_hour < 24
           THEN <<TRUE, "">> ELSE <<FALSE, RejectionMessage("text")>>
      [] message_type = "voice" ->
           IF 8 <= current_hour /\ current_hour <= 12
           THEN <<TRUE, "">> ELSE <<FALSE, RejectionMessage("voice")>>
      [] message_type = "video" ->
           IF 20 <= current_hour /\ current_hour < 24
           THEN <<TRUE, "">> ELSE <<FALSE, RejectionMessage("video")>>
      [] OTHER -> <<TRUE, "">>

\* _is_time_allowed: (is_allowed, rejection_message)
is_time_allowed(current_hour_utc, message_type, timezone) ==
  LET current_hour == astimezone_hour(current_hour_utc, timezone) IN
    CASE message_type = "text" ->
           IF 5 <= current_hour /\ current_hour < 24
           THEN <<TRUE, "">> ELSE <<FALSE, RejectionMessage("text")>>
      [] message_type = "voice" ->
           IF 8 <= current_hour /\ current_hour < 12
           THEN <<TRUE, "">> ELSE <<FALSE, RejectionMessage("voice")>>
      [] message_type = "video" ->
           IF 20 <= current_hour /\ current_hour < 24
           THEN <<TRUE, "">> ELSE <<FALSE, RejectionMessage("video")>>
      [] OTHER -> <<TRUE, "">>

\* message_data as the handler passes it on: the bytes of a preceding
\* binary frame are stored under binary_content, and a missing
\* message_type becomes "text" (chat_server.py:98-103, 113-115).
message_data(f) ==
  [type |-> f.type, is_system |-> f.is_system,
   message_type |-> IF f.message_type = Absent THEN "text" ELSE f.message_type,
   content |-> f.content, filename |-> f.filename,
   binary_content |-> f.binary, hour |-> f.hour]

\* f"{message_type}" of a member of the str-mixin Enum MessageType
format_MessageType(message_type) ==
  CASE message_type = "image" -> "MessageType.IMAGE"
    [] message_type = "video" -> "MessageType.VIDEO"
    [] message_type = "voice" -> "MessageType.VOICE"
    [] OTHER -> "MessageType.TEXT"

NoRecord == NoMessage

ValueError(text) == [raised |-> TRUE, error |-> text, record |-> NoRecord]

Message(record) == [raised |-> FALSE, error |-> "", record |-> record]

\* validate_message(message_data, client_id, timezone).  The handler has
\* set message_type before the call, so "Message type is required" is
\* never raised here.  The timestamp of the frame is an aware instant.
validate_message(d, timezone) ==
  LET message_type_str == IF d.type # Absent THEN d.type ELSE d.message_type
      content == IF d.content = Absent THEN "" ELSE d.content
      filename == d.filename
      media == message_type_str \in MediaTypes
      allowed == is_time_allowed(d.hour, message_type_str, timezone)
  IN  IF message_type_str \in {"system", "heartbeat"} \/ d.is_system
      THEN Message(SystemRecord([content |-> content]))
      ELSE IF message_type_str \notin MessageTypeValues
      THEN ValueError("Invalid message type: " \o message_type_str)
      ELSE IF media /\ filename = Absent
      THEN ValueError("Filename is required for " \o
                      format_MessageType(message_type_str) \o " messages")
      ELSE IF content = "" /\ filename = Absent
      THEN ValueError("Message content cannot be empty")
      ELSE Message(
             [message_type |-> message_type_str,
              content |-> IF media THEN "" ELSE content,
              filename |-> filename,
              binary_content |-> IF media THEN content ELSE Absent,
              is_accepted |-> allowed[1],
              status_message |-> IF ~allowed[1] THEN allowed[2] ELSE Absent])

NoFrame == [type |-> Absent, is_system |-> FALSE, message_type |-> Absent,
            content |-> Absent, filename |-> Absent, binary |-> Absent,
            hour |-> 0]

NoIntake == [frame |-> NoFrame, timezone |-> NoTz, outcome |-> "none",
             error |-> "", record |-> NoRecord]

\* One iteration of the receive loop for a session that is admitted by
\* both gates: the frame is skipped, or validate_message raises and the
\* error frame with its text is written, or process_message is called
\* with the validated record.
Dispatch(f, timezone) ==
  /\ intake.outcome = "none"
  /\ LET d == message_data(f)
         v == validate_message(d, timezone)
     IN  intake' =
           [frame |-> f, timezone |-> timezone,
            outcome |-> IF handler_skips(d) THEN "skipped"
                        ELSE IF v.raised THEN "error" ELSE "process",
            error |-> IF ~handler_skips(d) /\ v.raised THEN v.error ELSE "",
            record |-> IF ~handler_skips(d) /\ ~v.raised THEN v.record
                       ELSE NoRecord]
  /\ UNCHANGED <<server_vars, proc_vars, db_call>>

\* The iteration is over and the loop is back at its receive.
Continue ==
  /\ intake.outcome # "none"
  /\ intake' = NoIntake
  /\ UNCHANGED <<server_vars, proc_vars, db_call>>

(***************************************************************************)
(* DatabaseManager.save_message and save_reply (database.py:64-126): the   *)
(* loop `for attempt in range(retries)` around one transaction.            *)
(***************************************************************************)
retries == 3

WriteOps == {"save_message", "save_reply"}

\* What str(e) of a failed attempt can be.
WriteErrors == {"database is locked", "disk I/O error"}

Locked(err) == err = "database is locked"

\* pc: "idle", "attempt" (inside the transaction), "backoff"
\* (asyncio.sleep(0.1 * (attempt + 1))), "returned", "raised".
NoCall == [pc |-> "idle", op |-> "none", attempt |-> 0, attempts |-> 0,
           last_error |-> "", sleep_ms |-> 0, result |-> 0, calls |-> 0,
           rows_before |-> 0]

\* save_message or save_reply is called, or called again after the last
\* call ended: attempt 0 opens its transaction.
WriteCalled(op) ==
  /\ db_call.pc \in {"idle", "returned", "raised"}
  /\ db_call.calls < MaxCalls
  /\ db_call' = [NoCall EXCEPT !.pc = "attempt", !.op = op, !.attempts = 1,
                               !.calls = db_call.calls + 1,
                               !.rows_before = Rows]
  /\ UNCHANGED <<server_vars, proc_vars, intake>>

\* The transaction commits: one row is inserted and its id is returned.
AttemptSucceeds ==
  /\ db_call.pc = "attempt"
  /\ IF db_call.op = "save_message"
     THEN LET row == save_message([NoMessage EXCEPT !.message_type = "text",
                                                    !.content = "hi"], "hi")
          IN  /\ messages' = Append(messages, row)
              /\ db_call' = [db_call EXCEPT !.pc = "returned", !.result = row.id]
              /\ UNCHANGED replies
     ELSE LET row == save_reply(Len(messages), Received("text"), "text")
          IN  /\ replies' = Append(replies, row)
              /\ db_call' = [db_call EXCEPT !.pc = "returned", !.result = row.id]
              /\ UNCHANGED messages
  /\ UNCHANGED <<run, rate_limit_hit, rate_limit_time, processing_count,
                 clients>>
  /\ UNCHANGED <<server_vars, intake>>

AttemptFails_retrying_any(err) ==
  /\ db_call.pc = "attempt"
  /\ db_call' =
       IF db_call.attempt < retries - 1
       THEN [db_call EXCEPT !.pc = "backoff", !.last_error = err,
                            !.sleep_ms = 100 * (db_call.attempt + 1)]
       ELSE [db_call EXCEPT !.pc = "raised", !.last_error = err]
  /\ UNCHANGED <<server_vars, proc_vars, intake>>

\* The transaction raises and is rolled back.  A locked database is
\* retried after a sleep unless this was the last attempt; any other
\* error breaks out of the loop; after the loop last_error is raised.
AttemptFails(err) ==
  /\ db_call.pc = "attempt"
  /\ db_call' =
       IF Locked(err) /\ db_call.attempt < retries - 1
       THEN [db_call EXCEPT !.pc = "backoff", !.last_error = err,
                            !.sleep_ms = 100 * (db_call.attempt + 1)]
       ELSE [db_call EXCEPT !.pc = "raised", !.last_error = err]
  /\ UNCHANGED <<server_vars, proc_vars, intake>>

\* The sleep is over: `continue` starts the next attempt.
BackoffDone ==
  /\ db_call.pc = "backoff"
  /\ db_call' = [db_call EXCEPT !.pc = "attempt", !.attempt = @ + 1,
                                !.attempts = @ + 1, !.sleep_ms = 0]
  /\ UNCHANGED <<server_vars, proc_vars, intake>>

(***************************************************************************)
(* The handler of session s together with the run s of process_message it  *)
(* awaits (chat_server.py:148-174).                                        *)
(***************************************************************************)
\* A content frame is admitted by both gates; the handler of s has not
\* called process_message before and no other handler is inside
\* process_message (concurrent runs are the subject of SpecProc).
ReceiveContentProcessed(s) ==
  /\ run[s].pc = "idle"
  /\ \A t \in Sess \ {s} : pc[t] # "processing"
  /\ ReceiveContentAdmitted(s)

\* process_message(message) is called with the validated record.
ProcessStarts(s, m) ==
  /\ Suspended /\ pc[s] = "processing"
  /\ Call(s, m)

ProcessReturnsList_dropped(s) ==
  /\ Suspended /\ pc[s] = "processing" /\ run[s].pc = "done"
  /\ replies_left' = [replies_left EXCEPT ![s] = 0]
  /\ SetCM(release(CM, client_id[s]))
  /\ Goto(s, "running")
  /\ UNCHANGED <<client_id, now>>
  /\ UNCHANGED <<proc_vars, intake, db_call>>

\* process_message returns its list: the for loop starts on it, or, the
\* list being empty, ends at once and both finally blocks run.
ProcessReturnsList(s) ==
  /\ Suspended /\ pc[s] = "processing" /\ run[s].pc = "done"
  /\ replies_left' = [replies_left EXCEPT ![s] = Len(run[s].returned)]
  /\ IF Len(run[s].returned) = 0
     THEN /\ SetCM(release(CM, client_id[s]))
          /\ Goto(s, "running")
     ELSE /\ Goto(s, "writing")
          /\ UNCHANGED <<active_connections, client_timezones,
                         sending_clients, messages_processing,
                         last_heartbeat, heartbeat_task, ws>>
  /\ UNCHANGED <<client_id, now>>
  /\ UNCHANGED <<proc_vars, intake, db_call>>

(***************************************************************************)
(* Specifications.                                                         *)
(***************************************************************************)
vars == <<server_vars, proc_vars, intake, db_call>>

Init ==
  /\ active_connections = [c \in Clients |-> NoSession]
  /\ client_timezones = [c \in Clients |-> NoTz]
  /\ sending_clients = {}
  /\ messages_processing = 0
  /\ last_heartbeat = [c \in Clients |-> NoTime]
  /\ heartbeat_task = NoTask
  /\ pc = [s \in Sess |-> "accepted"]
  /\ client_id = [s \in Sess |-> NoClient]
  /\ replies_left = [s \in Sess |-> NoReplies]
  /\ ws = [s \in Sess |-> "open"]
  /\ now = 0
  /\ run = [p \in Procs |-> Idle]
  /\ messages = <<>>
  /\ replies = <<>>
  /\ rate_limit_hit = FALSE
  /\ rate_limit_time = NoTime
  /\ processing_count = 0
  /\ clients = {}
  /\ intake = NoIntake
  /\ db_call = NoCall

\* The registry, the session handlers and the heartbeat scanner.
Next ==
  \/ \E s \in Sess, c \in Clients, tz \in Timezones : Handshake(s, c, tz)
  \/ \E s \in Sess : HandshakeNoClientId(s)
  \/ \E s \in Sess, c \in Clients : HandshakeUpsertFails(s, c)
  \/ \E s \in Sess : HandshakeReceiveFails(s)
  \/ \E s \in Sess : ConfirmSent(s)
  \/ \E s \in Sess : ConfirmFails(s)
  \/ \E s \in Sess : ReceivePong(s)
  \/ \E s \in Sess : ReceiveIgnored(s)
  \/ \E s \in Sess : ReceiveContentRefused(s)
  \/ \E s \in Sess : SendingErrorWritten(s)
  \/ \E s \in Sess : ReceiveContentInvalid(s)
  \/ \E s \in Sess : ReceiveContentNoSlot(s)
  \/ \E s \in Sess : ReceiveContentAdmitted(s)
  \/ \E s \in Sess : ReceiveFails(s)
  \/ \E s \in Sess : ErrorFrameWritten(s)
  \/ \E s \in Sess, n \in ReplyCounts : ProcessReturns(s, n)
  \/ \E s \in Sess : WriteReply(s)
  \/ \E s \in Sess : WriteReplyDisconnected(s)
  \/ \E s \in Sess : ProcessingErrorWritten(s)
  \/ \E s \in Sess : PeerCloses(s)
  \/ ScanStart
  \/ \E c \in Clients : ScanVisit(c)
  \/ ScanPingDone
  \/ \E c \in Clients : ScanEvict(c)
  \/ ClockTick

Spec == Init /\ [][Next]_vars

\* The steps a handler takes without a new inbound frame: a pending
\* receive or send returns or raises, process_message returns.
HandlerStep(s) ==
  \/ HandshakeReceiveFails(s)
  \/ ConfirmSent(s)
  \/ ConfirmFails(s)
  \/ ReceiveFails(s)
  \/ SendingErrorWritten(s)
  \/ ErrorFrameWritten(s)
  \/ \E n \in ReplyCounts : ProcessReturns(s, n)
  \/ WriteReply(s)
  \/ WriteReplyDisconnected(s)
  \/ ProcessingErrorWritten(s)

ScannerStep ==
  \/ ScanStart
  \/ \E c \in Clients : ScanVisit(c)
  \/ ScanPingDone
  \/ \E c \in Clients : ScanEvict(c)

\* The event loop runs every coroutine that is ready to run.
Fairness ==
  /\ \A s \in Sess : WF_vars(HandlerStep(s))
  /\ WF_vars(ScannerStep)

\* Clients of the fair specification: both sessions present the same
\* client_id, the case in which one session's disconnect acts on the
\* registry entries of the other.
FairClients == {"a"}

NextFair ==
  \/ \E s \in Sess, c \in FairClients, tz \in Timezones : Handshake(s, c, tz)
  \/ \E s \in Sess : HandshakeNoClientId(s)
  \/ \E s \in Sess, c \in FairClients : HandshakeUpsertFails(s, c)
  \/ \E s \in Sess : HandshakeReceiveFails(s)
  \/ \E s \in Sess : ConfirmSent(s)
  \/ \E s \in Sess : ConfirmFails(s)
  \/ \E s \in Sess : ReceivePong(s)
  \/ \E s \in Sess : ReceiveIgnored(s)
  \/ \E s \in Sess : ReceiveContentRefused(s)
  \/ \E s \in Sess : SendingErrorWritten(s)
  \/ \E s \in Sess : ReceiveContentInvalid(s)
  \/ \E s \in Sess : ReceiveContentNoSlot(s)
  \/ \E s \in Sess : ReceiveContentAdmitted(s)
  \/ \E s \in Sess : ReceiveFails(s)
  \/ \E s \in Sess : ErrorFrameWritten(s)
  \/ \E s \in Sess, n \in ReplyCounts : ProcessReturns(s, n)
  \/ \E s \in Sess : WriteReply(s)
  \/ \E s \in Sess : WriteReplyDisconnected(s)
  \/ \E s \in Sess : ProcessingErrorWritten(s)
  \/ \E s \in Sess : PeerCloses(s)
  \/ ScanStart
  \/ \E c \in Clients : ScanVisit(c)
  \/ ScanPingDone
  \/ \E c \in Clients : ScanEvict(c)
  \/ ClockTick

SpecFair == Init /\ [][NextFair]_vars /\ Fairness

NextIntake ==
  \/ \E f \in Frames, tz \in Zones : Dispatch(f, tz)
  \/ Continue

SpecIntake == Init /\ [][NextIntake]_vars

\* Persistence calls, one after the other.
NextWrite ==
  \/ \E op \in WriteOps : WriteCalled(op)
  \/ AttemptSucceeds
  \/ \E err \in WriteErrors : AttemptFails(err)
  \/ BackoffDone

SpecWrite == Init /\ [][NextWrite]_vars

\* The records of SpecAnswer: every kind accepted and complete, a text
\* rejected, an image without its bytes, a system record.
AnswerRecords ==
  { r \in HandledRecords :
      \/ r.is_accepted /\ r.binary_content # ""
      \/ ~r.is_accepted /\ r.message_type = "text"
      \/ r.message_type = "image" }

\* The handlers from handshake to reply loop, each awaiting its own run
\* of process_message; no scanner pass and no clock. The capacity error
\* needs a session evicted while it holds the processing slot, which only
\* the scanner does at these gates: it is an action of Spec.
NextAnswer ==
  \/ \E s \in Sess, c \in FairClients, tz \in Timezones : Handshake(s, c, tz)
  \/ \E s \in Sess : ConfirmSent(s)
  \/ \E s \in Sess : ConfirmFails(s)
  \/ \E s \in Sess : ReceivePong(s)
  \/ \E s \in Sess : ReceiveIgnored(s)
  \/ \E s \in Sess : ReceiveContentRefused(s)
  \/ \E s \in Sess : SendingErrorWritten(s)
  \/ \E s \in Sess : ReceiveContentInvalid(s)
  \/ \E s \in Sess : ReceiveContentProcessed(s)
  \/ \E s \in Sess : ErrorFrameWritten(s)
  \/ \E s \in Sess, m \in AnswerRecords : ProcessStarts(s, m)
  \/ \E s \in Sess, ok \in BOOLEAN : MediaSaved(s, ok)
  \/ \E s \in Sess : MessageSaved(s)
  \/ \E s \in Sess : SaveFails(s)
  \/ \E s \in Sess : SleepDone(s)
  \/ \E s \in Sess, res \in LlmOutcomes : LlmReturns(s, res)
  \/ \E s \in Sess : ReplySaved(s)
  \/ \E s \in Sess : ProcessReturnsList(s)
  \/ \E s \in Sess : WriteReply(s)
  \/ \E s \in Sess : WriteReplyDisconnected(s)
  \/ \E s \in Sess : ProcessingErrorWritten(s)
  \/ \E s \in Sess : ReceiveFails(s)
  \/ \E s \in Sess : PeerCloses(s)

SpecAnswer == Init /\ [][NextAnswer]_vars

\* Concurrent runs of process_message over one database and one LLM client.
NextProc ==
  \/ \E p \in Procs, m \in HandledRecords : Call(p, m)
  \/ \E p \in Procs, ok \in BOOLEAN : MediaSaved(p, ok)
  \/ \E p \in Procs : MessageSaved(p)
  \/ \E p \in Procs : SaveFails(p)
  \/ \E p \in Procs : SleepDone(p)
  \/ \E p \in Procs, res \in LlmOutcomes : LlmReturns(p, res)
  \/ \E p \in Procs : ReplySaved(p)

SpecProc == Init /\ [][NextProc]_vars

\* The same runs, each followed by the handler's reply loop.
NextReply ==
  \/ NextProc
  \/ \E p \in Procs, res \in WriteOutcomes : SendReply(p, res)

SpecReply == Init /\ [][NextReply]_vars

\* Time passes between the steps of the runs: datetime.now() as the LLM
\* client reads it (openai_client.py:32, 82, 115).
LatchTimes == {45, 345, 1800, 1845, 1890}

Elapse(t) ==
  /\ t > now
  /\ now' = t
  /\ UNCHANGED <<active_connections, client_timezones, sending_clients,
                 messages_processing, last_heartbeat, heartbeat_task,
                 pc, client_id, replies_left, ws>>
  /\ UNCHANGED <<proc_vars, intake, db_call>>

\* The runs of process_message and the LLM latch under a moving clock.
NextLatch ==
  \/ NextProc
  \/ \E t \in LatchTimes : Elapse(t)

SpecLatch == Init /\ [][NextLatch]_vars

(***************************************************************************)
(* Properties.                                                             *)
(***************************************************************************)
\* Handler positions between a successful start_sending and the
\* handler's own stop_sending.
MidIntake == {"validation_error", "capacity_error", "processing", "writing",
              "processing_error"}

\* Handler positions from RUNNING on, short of TERMINAL.
Live == {"running", "sending_error"} \cup MidIntake

\* C1: the set of clients marked as sending never has more than
\* MAX_SENDING members.
C1_SendingBounded == Cardinality(sending_clients) <= MAX_SENDING

\* The gate is full and a handler of another client is ready to call
\* start_sending.
C1_Witness ==
  /\ Cardinality(sending_clients) = MAX_SENDING
  /\ \E s \in Sess : /\ pc[s] = "running" /\ ws[s] = "open"
                     /\ client_id[s] \notin sending_clients

\* C2: the processing counter always satisfies
\* 0 <= messages_processing <= MAX_PROCESSING.
C2_ProcessingBounded ==
  /\ 0 <= messages_processing
  /\ messages_processing <= MAX_PROCESSING

\* The counter is at its cap and a handler was refused a slot.
C2_Witness ==
  /\ messages_processing = MAX_PROCESSING
  /\ \E s \in Sess : pc[s] = "capacity_error"

\* C3: the number of session handlers that are mid-intake is at most
\* MAX_SENDING.
C3_MidIntakeBounded ==
  Cardinality({s \in Sess : pc[s] \in MidIntake}) <= MAX_SENDING

\* C4: no two session handlers in the RUNNING (or a later, non-terminal)
\* state were registered under the same client_id.
C4_OneLiveSessionPerClient ==
  \A s, t \in Sess :
    (s # t /\ pc[s] \in Live /\ pc[t] \in Live) => client_id[s] # client_id[t]

\* C5: whenever every handler is waiting for a frame or has terminated,
\* messages_processing is 0 and the sending set is empty.
C5_GatesReleased ==
  (\A s \in Sess : pc[s] \notin MidIntake)
    => (messages_processing = 0 /\ sending_clients = {})

\* Every handler is idle again after one of them took both gates, wrote
\* its replies and released, and another one left through disconnect.
C5_Witness ==
  /\ \A s \in Sess : pc[s] \notin MidIntake
  /\ \E s \in Sess : pc[s] = "running" /\ replies_left[s] = 0
  /\ \E s \in Sess : pc[s] = "terminal" /\ replies_left[s] = 0

Registered(c) == active_connections[c] # NoSession /\ last_heartbeat[c] # NoTime

\* C6 as stated: once more than HEARTBEAT_TIMEOUT seconds have passed
\* since a session's last pong (or its registration), the session is no
\* longer in the live set.
C6_NoStaleSessionLive ==
  \A c \in Clients : Registered(c) => now - last_heartbeat[c] <= HEARTBEAT_TIMEOUT

\* C6 amended: when the scanner sleeps after a pass that ran to its end,
\* no session whose last pong (or registration) was more than
\* HEARTBEAT_TIMEOUT seconds before that pass took current_time is in
\* the live set.
C6_NoStaleSessionAfterPass ==
  heartbeat_task.state = "sleep" =>
    \A c \in Clients :
      Registered(c) =>
        heartbeat_task.current_time - last_heartbeat[c] <= HEARTBEAT_TIMEOUT

\* A pass has run to its end after evicting a session whose handler is
\* still waiting for a frame.
C6_Witness ==
  /\ heartbeat_task.state = "sleep"
  /\ heartbeat_task.current_time > HEARTBEAT_TIMEOUT
  /\ \E s \in Sess : /\ pc[s] = "running" /\ ws[s] = "server_closed"
                     /\ active_connections[client_id[s]] = NoSession

Indexes(q) == 1..Len(q)

Done(p) == run[p].pc = "done"

\* C7: for every Reply row there is a Message row with the reply's
\* message_id that was inserted strictly earlier.
C7_MessageBeforeReply ==
  \A i \in Indexes(replies) :
    \E j \in Indexes(messages) :
      /\ messages[j].id = replies[i].message_id
      /\ messages[j].at < replies[i].at

\* A run failed after its Message row and a Reply row were inserted.
C7_Witness ==
  \E p \in Procs :
    /\ Done(p) /\ run[p].outcome = "error"
    /\ \E i \in Indexes(replies) : replies[i].message_id = run[p].message_id

\* C8: for a record with is_accepted = false, process_message returns
\* exactly one reply, of reply_type text, whose body is the record's
\* status_message, without an LLM call and without a static media reply.
C8_RejectedReply ==
  \A p \in Procs :
    (Done(p) /\ ~run[p].message.is_accepted) =>
      /\ Len(run[p].returned) = 1
      /\ run[p].returned[1].reply_type = "text"
      /\ run[p].returned[1].message = run[p].message.status_message
      /\ run[p].message.status_message = RejectionMessage(run[p].message.message_type)
      /\ run[p].llm_calls = 0
      /\ \A i \in Indexes(replies) : replies[i].message_id # run[p].message_id

\* A rejected voice record has been answered while the other run
\* persisted replies.
C8_Witness ==
  /\ \E p \in Procs : /\ Done(p) /\ ~run[p].message.is_accepted
                      /\ run[p].message.message_type = "voice"
  /\ Len(replies) > 0

\* C9: after process_message handled a record with is_accepted = false,
\* a Message row for it exists with is_accepted = false and the
\* rejection reason as status_message.
C9_RejectedPersisted ==
  \A p \in Procs :
    (Done(p) /\ ~run[p].message.is_accepted) =>
      \E j \in Indexes(messages) :
        /\ ~messages[j].is_accepted
        /\ messages[j].status_message = run[p].message.status_message

VoiceReplies(frames) ==
  {i \in Indexes(frames) : frames[i].reply_type = "voice"}

AcceptedMedia(p) ==
  /\ Done(p) /\ run[p].message.is_accepted
  /\ run[p].message.message_type \in MediaTypes

ExactlyOneStaticVoice(frames) ==
  /\ Cardinality(VoiceReplies(frames)) = 1
  /\ \A i \in VoiceReplies(frames) :
       frames[i].content = "/media/static_replies/reply.mp3"

\* C10 as stated: for every accepted voice, video or image message the
\* returned list holds exactly one voice reply, with content
\* /media/static_replies/reply.mp3.
C10_VoiceReplyAlways ==
  \A p \in Procs : AcceptedMedia(p) => ExactlyOneStaticVoice(run[p].returned)

\* C10 amended: the voice reply is there exactly when the run was not
\* rate-limited and did not fail; a rate-limited or failed run returns a
\* single text reply.
C10_VoiceReplyUnlessBusyOrFailed ==
  \A p \in Procs :
    AcceptedMedia(p) =>
      /\ (run[p].outcome = "ok" <=> (~run[p].rate_limited /\ run[p].outcome # "error"))
      /\ (run[p].outcome = "ok" => ExactlyOneStaticVoice(run[p].returned))
      /\ (run[p].outcome # "ok" =>
            /\ Len(run[p].returned) = 1
            /\ VoiceReplies(run[p].returned) = {})

\* An accepted video message was answered in full while the other run
\* ended rate-limited, rejected or failed.
C10_Witness ==
  /\ \E p \in Procs : /\ AcceptedMedia(p) /\ run[p].outcome = "ok"
                      /\ run[p].message.message_type = "video"
  /\ \E p \in Procs : Done(p) /\ run[p].outcome # "ok"

ImageReplies(frames) ==
  {i \in Indexes(frames) : frames[i].reply_type = "image"}

ExactlyOneStaticImage(frames) ==
  /\ Cardinality(ImageReplies(frames)) = 1
  /\ \A i \in ImageReplies(frames) :
       frames[i].content = "/media/static_replies/reply.png"

AcceptedOf(p, kinds) ==
  /\ Done(p) /\ run[p].message.is_accepted
  /\ run[p].message.message_type \in kinds

\* C11 as stated: for every accepted video or image message the returned
\* list holds exactly one image reply, with content
\* /media/static_replies/reply.png; for a text or voice message it holds
\* no image reply.
C11_ImageReplyAlways ==
  \A p \in Procs :
    /\ AcceptedOf(p, {"video", "image"}) => ExactlyOneStaticImage(run[p].returned)
    /\ AcceptedOf(p, {"text", "voice"}) => ImageReplies(run[p].returned) = {}

\* C11 amended: for an accepted video or image message the image reply
\* is there, exactly once, exactly when the run was not
\* rate-limited and did not fail; a rate-limited or failed run returns a
\* single text reply; a text or voice message never gets an image reply.
C11_ImageReplyUnlessBusyOrFailed ==
  \A p \in Procs :
    /\ AcceptedOf(p, {"video", "image"}) =>
         /\ (run[p].outcome = "ok" <=>
               (~run[p].rate_limited /\ run[p].outcome # "error"))
         /\ (run[p].outcome = "ok" => ExactlyOneStaticImage(run[p].returned))
         /\ (run[p].outcome # "ok" =>
               /\ Len(run[p].returned) = 1
               /\ ImageReplies(run[p].returned) = {})
    /\ AcceptedOf(p, {"text", "voice"}) => ImageReplies(run[p].returned) = {}

\* An accepted video message got its image reply while an accepted voice
\* message was answered in full without one.
C11_Witness ==
  /\ \E p \in Procs : /\ AcceptedOf(p, {"video"}) /\ run[p].outcome = "ok"
                      /\ ImageReplies(run[p].returned) # {}
  /\ \E p \in Procs : /\ AcceptedOf(p, {"voice"}) /\ run[p].outcome = "ok"
                      /\ Len(run[p].returned) = 2

ReplyRank(reply_type) ==
  CASE reply_type = "text" -> 1
    [] reply_type = "voice" -> 2
    [] reply_type = "image" -> 3

\* text before voice before image, at most one of each
Ordered(frames) ==
  \A i, j \in Indexes(frames) :
    i < j => ReplyRank(frames[i].reply_type) < ReplyRank(frames[j].reply_type)

\* The frames the handler has written for run p, in the order written.
Wire(p) == [k \in Indexes(run[p].sent) |-> run[p].returned[run[p].sent[k]]]

\* C12: in every list process_message returns, and in the order the
\* handler writes the frames, the text reply precedes the static media
\* replies and voice precedes image; the handler writes the replies in
\* the order of the list (a reply whose write fails is left out, none is
\* written out of turn).
C12_ReplyOrder ==
  \A p \in Procs :
    /\ Done(p) => Ordered(run[p].returned)
    /\ Ordered(Wire(p))
    /\ \A k, l \in Indexes(run[p].sent) :
         k < l => run[p].sent[k] < run[p].sent[l]

\* One run's text, voice and image replies were all written, another
\* run's list of three lost a frame to a write error.
C12_Witness ==
  /\ \E p \in Procs : /\ Len(run[p].sent) = 3
                      /\ Wire(p)[1].reply_type = "text"
                      /\ Wire(p)[3].reply_type = "image"
  /\ \E p \in Procs : /\ Len(run[p].returned) = 3 /\ run[p].cursor = 4
                      /\ Len(run[p].sent) = 2

\* A run reads the rate-limit status: the step in which save_message
\* returns.
ReadsStatus(p) == run[p].pc = "save_message" /\ run'[p].message_id # 0

LatchExpired == rate_limit_hit /\ now - rate_limit_time > rate_limit_duration

\* C13: after an HTTP 429 set the latch, a status read within the 30
\* minutes reports rate_limited = true, and a status read after the 30
\* minutes have elapsed reports rate_limited = false and clears the
\* latch.
C13_LatchExpires ==
  [][\A p \in Procs :
       ReadsStatus(p) =>
         /\ (rate_limit_hit /\ ~LatchExpired) => run'[p].rate_limited
         /\ LatchExpired => (~run'[p].rate_limited /\ ~rate_limit_hit')]_vars

\* The run took the rate-limited branch and built the busy text.
Busy(p) ==
  /\ run[p].rate_limited
  /\ \/ run[p].pc = "save_busy_reply"
     \/ Done(p) /\ run[p].outcome = "busy"

\* The latch window: from the HTTP 429 to the expiry 30 minutes later.
InWindow(s) == 0 <= s /\ s <= rate_limit_duration

Ceiling(s, d) == -((-s) \div d)

\* The busy text with N minutes is what the run saves and returns.
Says(p, n) ==
  /\ run[p].minutes_remaining = n
  /\ run[p].text_reply_content = BusyText(n, run[p].message.content)
  /\ Done(p) => run[p].returned[1].content = BusyText(n, run[p].message.content)

\* C14 as stated: with seconds_remaining = s in the latch window, the
\* number of minutes in the busy reply is the ceiling of s / 60.
C14_MinutesCeiling ==
  \A p \in Procs :
    (Busy(p) /\ InWindow(run[p].time_remaining)) =>
      Says(p, Ceiling(run[p].time_remaining, 60))

\* C14 amended: with seconds_remaining = s in the latch window, the
\* number of minutes in the busy reply is floor(s / 60) + 1, which is the
\* ceiling of s / 60 unless s is a whole number of minutes.
C14_MinutesFloorPlusOne ==
  \A p \in Procs :
    (Busy(p) /\ InWindow(run[p].time_remaining)) =>
      /\ Says(p, (run[p].time_remaining \div 60) + 1)
      /\ (run[p].time_remaining % 60 # 0 =>
            Says(p, Ceiling(run[p].time_remaining, 60)))

\* A message processed with 1500 seconds remaining was answered with
\* "try again in 26 minutes".
C14_Witness ==
  \E p \in Procs :
    /\ Busy(p) /\ Done(p) /\ run[p].time_remaining = 1500
    /\ run[p].returned[1].content =
         "System is currently busy. Please try again in 26 minutes. (Original message: hi...)"

StartsWith(str, prefix) ==
  /\ Len(str) >= Len(prefix)
  /\ SubSeq(str, 1, Len(prefix)) = prefix

MessageRows(p) == {j \in Indexes(messages) : messages[j].id = run[p].message_id}

ReplyRows(p) == {i \in Indexes(replies) : replies[i].message_id = run[p].message_id}

\* The run read a rate-limited status and has returned.
RateLimitedRun(p) == Done(p) /\ run[p].rate_limited

OneTextReply(p) ==
  /\ Len(run[p].returned) = 1
  /\ run[p].returned[1].reply_type = "text"
  /\ run[p].llm_calls = 0
  /\ Cardinality(MessageRows(p)) = 1

BusyReplyPersisted(p) ==
  /\ StartsWith(run[p].returned[1].content, BusyPrefix)
  /\ Cardinality(ReplyRows(p)) = 1
  /\ \A i \in ReplyRows(p) :
       /\ replies[i].id = run[p].returned[1].id
       /\ replies[i].content = run[p].returned[1].content
       /\ replies[i].reply_type = "text"

\* C15 as stated: when the status is rate-limited, process_message
\* returns exactly one reply, a text reply starting with "System is
\* currently busy. Please try again in", without an LLM call and without
\* a static reply, and the Message row and that one Reply row are
\* persisted.
C15_BusyReplyAlways ==
  \A p \in Procs : RateLimitedRun(p) => (OneTextReply(p) /\ BusyReplyPersisted(p))

\* C15 amended: the same, unless saving the busy reply fails; then the
\* one reply is the synthetic error text and only the Message row is
\* persisted.
C15_BusyReplyUnlessSaveFails ==
  \A p \in Procs :
    RateLimitedRun(p) =>
      /\ OneTextReply(p)
      /\ run[p].outcome \in {"busy", "error"}
      /\ run[p].outcome = "busy" => BusyReplyPersisted(p)
      /\ run[p].outcome = "error" =>
           /\ StartsWith(run[p].returned[1].message, "Error processing message: ")
           /\ ReplyRows(p) = {}

\* A video message processed under the latch got the busy reply, and its
\* Reply row is in the table.
C15_Witness ==
  \E p \in Procs :
    /\ RateLimitedRun(p) /\ run[p].outcome = "busy"
    /\ run[p].message.message_type = "video"
    /\ ReplyRows(p) # {}

\* C20: a frame classified as system or heartbeat (type "system" or
\* "heartbeat", or is_system truthy) is never processed as content: no
\* Message row, Reply row or reply frame comes of its record.
C20_SentinelNotProcessed ==
  /\ \A p \in Procs :
       run[p].message.message_type = "system" =>
         (MessageRows(p) = {} /\ ReplyRows(p) = {} /\ run[p].returned = <<>>)
  /\ \A j \in Indexes(messages) : messages[j].message_type # "system"

\* What the claims call the registry: live map, timezone map, heartbeat
\* map, sending set and processing counter.
Registry(m) ==
  <<m.active_connections, m.client_timezones, m.last_heartbeat,
    m.sending_clients, m.messages_processing>>

RegistryUnchanged ==
  UNCHANGED <<active_connections, client_timezones, last_heartbeat,
              sending_clients, messages_processing>>

\* Handler s reads a frame that is not skipped: it leaves RUNNING while
\* its transport is open.
ContentFrame(s) == pc[s] = "running" /\ ws[s] = "open" /\ pc'[s] # "running"

Leaves(s, position) == pc[s] = position /\ pc'[s] # position

\* C16: with the sending set full, a content frame on another session is
\* answered with the "Too many clients sending" error frame; the
\* processor is not invoked and no Message row is written, the sending
\* set and the processing counter do not change, and once the frame is
\* written the session is RUNNING again with its transport open.
C16_SendingGateRefuses ==
  [][\A s \in Sess :
       /\ (ContentFrame(s) /\ Cardinality(sending_clients) >= MAX_SENDING) =>
            /\ pc'[s] = "sending_error"
            /\ RegistryUnchanged /\ ws' = ws
            /\ UNCHANGED <<messages, replies>>
       /\ (Leaves(s, "sending_error") /\ ws[s] = "open") =>
            /\ pc'[s] = "running"
            /\ RegistryUnchanged /\ ws' = ws
            /\ UNCHANGED <<messages, replies>>]_vars

\* A handler is writing the refusal while the sending set is full with
\* another session's client.
C16_Witness ==
  \E s, t \in Sess :
    /\ pc[s] = "sending_error" /\ ws[s] = "open"
    /\ pc[t] \in MidIntake /\ client_id[t] # client_id[s]
    /\ sending_clients = {client_id[t]}
    /\ Cardinality(sending_clients) = MAX_SENDING

\* C17: with messages_processing at its cap, a content frame that passed
\* the sending gate and validation gets the capacity error frame: the
\* processor is not invoked and no Message row is written, the counter
\* is left as it is, and when the frame is written the session's
\* sending flag is cleared and the session is RUNNING again.
C17_ProcessingGateRefuses ==
  [][\A s \in Sess :
       /\ (/\ ContentFrame(s) /\ messages_processing >= MAX_PROCESSING
           /\ pc'[s] \in {"capacity_error", "processing"}) =>
            /\ pc'[s] = "capacity_error"
            /\ messages_processing' = messages_processing
            /\ UNCHANGED <<messages, replies>>
       /\ Leaves(s, "capacity_error") =>
            /\ client_id[s] \notin sending_clients'
            /\ messages_processing' = messages_processing
            /\ UNCHANGED <<messages, replies>>
            /\ ws[s] = "open" => (pc'[s] = "running" /\ ws'[s] = "open")]_vars

\* A handler holds the sending flag and is writing the capacity error
\* while another handler holds the only processing slot.
C17_Witness ==
  \E s, t \in Sess :
    /\ pc[s] = "capacity_error" /\ ws[s] = "open"
    /\ client_id[s] \in sending_clients
    /\ pc[t] \in {"processing", "writing"}
    /\ messages_processing = MAX_PROCESSING

\* C18: disconnect is idempotent: in every registry state and for every
\* client_id, a second disconnect leaves the live map, the timezone map,
\* the heartbeat map, the sending set, the processing counter and the
\* transports as the first one left them.
C18_DisconnectIdempotent ==
  \A c \in Clients :
    LET once == disconnect(CM, c)
        twice == disconnect(once, c)
    IN  Registry(twice) = Registry(once) /\ twice.ws = once.ws

\* A session was disconnected twice, by the scanner's eviction and then
\* by its own handler, while another client is registered and sending.
C18_Witness ==
  \E s, t \in Sess :
    /\ pc[s] = "terminal" /\ ws[s] = "server_closed"
    /\ client_id[s] \in Clients /\ ~Registered(client_id[s])
    /\ client_id[t] \in Clients /\ Registered(client_id[t]) /\ active_connections[client_id[t]] = t
    /\ client_id[t] \in sending_clients

\* C19: when the first frame on an accepted transport has no client_id,
\* the transport is closed with code 1008, the handler ends without
\* reaching RUNNING, and the registry and the client table are left as
\* they were.
C19_MissingClientId ==
  [][\A s \in Sess :
       /\ (/\ pc[s] = "accepted" /\ ws[s] = "open" /\ pc'[s] # "accepted"
           /\ client_id'[s] = NoClient) =>
            /\ ws'[s] = "policy_closed" /\ pc'[s] = "terminal"
            /\ RegistryUnchanged /\ clients' = clients
            /\ heartbeat_task' = heartbeat_task
       /\ (pc[s] = "terminal" /\ client_id[s] = NoClient) =>
            pc'[s] = "terminal"]_vars

\* A transport was closed for a missing client_id while another session
\* is registered, with its client row in the table.
C19_Witness ==
  \E s, t \in Sess :
    /\ pc[s] = "terminal" /\ ws[s] = "policy_closed" /\ client_id[s] = NoClient
    /\ pc[t] = "running" /\ Registered(client_id[t])
    /\ clients = {client_id[t]}

\* Handler positions of a session that has been registered by connect.
AfterConnect == {"confirm"} \cup Live

\* The transport of a registered session is gone.
Down(s) == pc[s] \in AfterConnect /\ ws[s] # "open"

Unregistered(m, c) ==
  /\ m.active_connections[c] = NoSession
  /\ m.client_timezones[c] = NoTz
  /\ m.last_heartbeat[c] = NoTime
  /\ c \notin m.sending_clients

\* C21: whenever the transport of a registered session is gone, in
\* whatever position its handler is, the handler eventually ends, and the
\* step in which it ends is a disconnect(client_id) that leaves the
\* client_id absent from the live map, the timezone map, the heartbeat
\* map and the sending set.
C21_DisconnectEventually ==
  /\ \A s \in Sess : Down(s) ~> (pc[s] = "terminal")
  /\ [][\A s \in Sess :
          (pc[s] \in AfterConnect /\ pc'[s] = "terminal") =>
            /\ active_connections'[client_id[s]] = NoSession
            /\ client_timezones'[client_id[s]] = NoTz
            /\ last_heartbeat'[client_id[s]] = NoTime
            /\ client_id[s] \notin sending_clients']_vars

\* A handler whose peer went away while a message was in progress has
\* ended, and its client_id is gone from the registry.
C21_Witness ==
  \E s \in Sess :
    /\ pc[s] = "terminal" /\ ws[s] = "peer_closed" /\ replies_left[s] = 0
    /\ client_id[s] \in Clients /\ Unregistered(CM, client_id[s])

C23_OnlyHeartbeatEviction ==
  [][\A s \in Sess :
       (pc[s] \in AfterConnect /\ ws[s] = "open" /\ ws'[s] = "server_closed") =>
         /\ heartbeat_task.state = "evict"
         /\ client_id[s] \in heartbeat_task.stale
         /\ last_heartbeat[client_id[s]] # NoTime
         /\ now - last_heartbeat[client_id[s]] > HEARTBEAT_TIMEOUT]_vars

\* C28: no pass of the heartbeat scanner is aborted: the scanner is
\* never in the sleep of its except block, which it enters only when a
\* connect, disconnect or pong-less change of the heartbeat map during a
\* ping send makes the iteration raise.
C28_PassNeverAborted == heartbeat_task.state # "retry"

\* The run of p has just failed in the media step with error err: it
\* returns the one synthetic reply and no row was written.
MediaStepFails(p, err) ==
  /\ run'[p].pc = "done"
  /\ run'[p].returned = <<ErrorFrame(err)>>
  /\ run'[p].message_id = 0
  /\ messages' = messages /\ replies' = replies

\* C30: a media message that comes without binary content fails at the
\* call, and one whose save_media returns no path fails at that step:
\* in both cases the run returns exactly one error reply and writes no
\* Message row and no Reply row; save_media otherwise hands its path to
\* the save of the Message row. A run that ended this way has no rows.
C30_MediaFailureBeforePersistence ==
  /\ [][\A p \in Procs :
          /\ (run[p].pc = "idle" /\ run'[p].pc # "idle" /\
              run'[p].message.is_accepted /\
              run'[p].message.message_type \in MediaTypes /\
              run'[p].message.binary_content \in {Absent, ""}) =>
               MediaStepFails(p, "Binary content is required for " \o
                                 run'[p].message.message_type \o " message")
          /\ (run[p].pc = "save_media" /\ run'[p] # run[p]) =>
               \/ /\ run'[p].pc = "save_message"
                  /\ run'[p].content_to_save =
                       "media/" \o run[p].message.filename
               \/ MediaStepFails(p, "Failed to save " \o
                                    run[p].message.message_type \o " file")]_vars
  /\ [](\A p \in Procs :
          (Done(p) /\ run[p].message.is_accepted /\
           run[p].message.message_type \in MediaTypes /\
           run[p].content_to_save = "") =>
            /\ run[p].outcome = "error" /\ Len(run[p].returned) = 1
            /\ MessageRows(p) = {} /\ ReplyRows(p) = {})

\* One media message failed in save_media and another for want of
\* binary content.
C30_Witness ==
  \E p, q \in Procs :
    /\ Done(p) /\ Done(q)
    /\ run[p].message.message_type \in MediaTypes
    /\ run[p].returned =
         <<ErrorFrame("Failed to save " \o run[p].message.message_type \o " file")>>
    /\ run[q].message.message_type \in MediaTypes
    /\ run[q].message.binary_content = ""
    /\ run[q].outcome = "error"

\* The texts get_chat_response returns when its request fails.
LlmApologies ==
  {"Sorry, I'm receiving too many requests right now. Please try again in 30 minutes.",
   "Sorry, I'm having trouble processing your request. Please try again later."}

\* The run of p called the LLM and the call failed.
LlmFailed(p) ==
  /\ Done(p) /\ run[p].llm_calls = 1
  /\ run[p].text_reply_content \in LlmApologies

\* The run of p ended in the except block of process_message.
Failed(p) == Done(p) /\ run[p].outcome = "error"

IsSyntheticReply(f) ==
  /\ f.type = "message" /\ f.reply_type = "text"
  /\ StartsWith(f.message, "Error processing message: ")

\* C22 as stated: every failure inside process_message, an LLM error
\* included, ends in a list of exactly one synthetic reply of type
\* message, "Error processing message: <err>", reply_type text.
C22_EveryFailureSynthetic ==
  \A p \in Procs :
    (Failed(p) \/ LlmFailed(p)) =>
      /\ Len(run[p].returned) = 1
      /\ IsSyntheticReply(run[p].returned[1])

\* C22 amended: a media or persistence failure ends in a list of exactly
\* one synthetic reply; an LLM error alone is no failure of the message:
\* the run goes on with the apology text of the LLM client as its text
\* reply, which is persisted and returned as an ordinary reply.
C22_FailuresExceptLlm ==
  \A p \in Procs :
    /\ Failed(p) =>
         /\ Len(run[p].returned) = 1
         /\ IsSyntheticReply(run[p].returned[1])
    /\ (LlmFailed(p) /\ ~Failed(p)) =>
         /\ run[p].outcome = "ok"
         /\ Len(run[p].returned) = 1
         /\ ~IsSyntheticReply(run[p].returned[1])
         /\ run[p].returned[1].content = run[p].text_reply_content
         /\ \E i \in ReplyRows(p) :
              /\ replies[i].id = run[p].returned[1].id
              /\ replies[i].content = run[p].text_reply_content

\* One run failed in persistence and another one's LLM call failed.
C22_Witness ==
  \E p, q \in Procs :
    /\ Failed(p) /\ run[p].message_id # 0
    /\ LlmFailed(q) /\ ~Failed(q)

\* C27: an accepted text message, processed while not rate-limited,
\* whose LLM call fails gets the single text reply "Sorry, I couldn't
\* process your request at the moment. (Received: <content>...)", and
\* that text is the persisted Reply row.
C27_LlmFailureFallback ==
  \A p \in Procs :
    (LlmFailed(p) /\ ~Failed(p)) =>
      /\ Len(run[p].returned) = 1
      /\ run[p].returned[1].content =
           "Sorry, I couldn't process your request at the moment. (Received: "
             \o run[p].message.content \o "...)"

ContentKinds == {"text", "image", "video", "voice"}

\* The window of local hours in which a kind is accepted.
InWindowOf(k, h) ==
  \/ k = "text" /\ 5 <= h /\ h < 24
  \/ k = "voice" /\ 8 <= h /\ h < 12
  \/ k = "video" /\ 20 <= h /\ h < 24
  \/ k = "image"

\* C24: the record validate_message returns for a content frame of kind
\* k whose timestamp has local hour h in the client's timezone is
\* accepted exactly when h is in the window of k; a rejected record
\* carries the rejection message of its kind, an accepted one none.
C24_TimePolicy ==
  (intake.outcome = "process" /\ intake.record.message_type \in ContentKinds) =>
    LET k == intake.record.message_type
        h == astimezone_hour(intake.frame.hour, intake.timezone)
    IN  /\ intake.record.is_accepted <=> InWindowOf(k, h)
        /\ ~intake.record.is_accepted =>
             intake.record.status_message = RejectionMessage(k)
        /\ intake.record.is_accepted =>
             intake.record.status_message = Absent

\* A voice frame stamped 03:00 UTC by a client in Tokyo, local hour 12,
\* is rejected.
C24_Witness ==
  /\ intake.outcome = "process" /\ intake.record.message_type = "voice"
  /\ intake.timezone = "Asia/Tokyo" /\ intake.frame.hour = 3
  /\ ~intake.record.is_accepted

\* C25: the record of a media frame that arrived as a binary frame
\* followed by its metadata frame has the bytes of the binary frame as
\* binary_content, and an empty content.
C25_BinaryFrameCaptured ==
  (intake.outcome = "process" /\ intake.record.message_type \in MediaTypes /\
   intake.frame.binary # Absent) =>
    /\ intake.record.binary_content = intake.frame.binary
    /\ intake.record.content = ""

\* C26: a text frame whose content is empty or absent is refused with
\* the empty-content error, whatever else it carries, and
\* process_message is not called for it.
C26_EmptyTextRefused ==
  (intake.outcome # "none" /\ ~handler_skips(intake.frame) /\
   intake.frame.type = Absent /\
   intake.frame.message_type \in {Absent, "text"} /\
   intake.frame.content \in {Absent, ""}) =>
    /\ intake.outcome = "error"
    /\ intake.error = "Message content cannot be empty"

\* C32: every client_id of the live-session map has a last_heartbeat
\* entry, so that the scanner's iteration over last_heartbeat visits
\* every registered session.
C32_RegisteredHasHeartbeat ==
  \A c \in Clients :
    active_connections[c] # NoSession => last_heartbeat[c] # NoTime

\* C40: every client_id with a last_heartbeat entry is in the
\* live-session map.
C40_HeartbeatHasSession ==
  \A c \in Clients :
    last_heartbeat[c] # NoTime => active_connections[c] # NoSession

\* Handler positions between a successful increment_processing and the
\* decrement_processing of the finally block.
HoldsProcessingSlot == {"processing", "writing", "processing_error"}

\* C36: messages_processing is the number of handlers that are between
\* a successful increment_processing and its decrement_processing.
C36_ProcessingCounterExact ==
  messages_processing =
    Cardinality({s \in Sess : pc[s] \in HoldsProcessingSlot})

\* A handler holds the slot while another session was replaced in the
\* registry, evicted or disconnected.
C36_Witness ==
  \E s, t \in Sess :
    /\ s # t /\ pc[s] \in HoldsProcessingSlot /\ messages_processing = 1
    /\ pc[t] = "terminal" /\ client_id[t] = client_id[s]
    /\ active_connections[client_id[s]] = NoSession

\* C35: the step in which a handler ends neither closes the transport
\* of another handler that is still running nor removes that handler's
\* registration.
C35_DisconnectOwnTransportOnly ==
  [][\A s, t \in Sess :
       (s # t /\ pc[s] # "terminal" /\ pc'[s] = "terminal" /\
        pc[t] \in AfterConnect) =>
         /\ ws'[t] = ws[t]
         /\ \A c \in Clients :
              active_connections[c] = t => active_connections'[c] = t]_vars

InPass == {"iter", "ping", "evict"}

\* C34: at most one scanner task has been started and is alive; none is
\* started while no handler has read a client_id; a started task is
\* never lost, and after the sleep that follows a pass that raised it
\* starts its next pass.
C34_OneScannerTask ==
  /\ [](/\ heartbeat_task.tasks <= 1
        /\ (heartbeat_task.tasks = 0 <=> heartbeat_task.state = "none")
        /\ (heartbeat_task.tasks >= 1 => \E s \in Sess : client_id[s] \in Clients))
  /\ [][/\ heartbeat_task'.tasks >= heartbeat_task.tasks
        /\ (heartbeat_task.state = "retry" /\ heartbeat_task' # heartbeat_task) =>
             /\ now >= heartbeat_task.wake
             /\ heartbeat_task'.state \in InPass \cup {"sleep"}]_vars

\* Both sessions have registered and started their heartbeat, and the
\* one scanner task is in the sleep that follows a pass that raised.
C34_Witness ==
  /\ \A s \in Sess : pc[s] \in Live
  /\ heartbeat_task.tasks = 1
  /\ heartbeat_task.state = "retry"

\* C31: every reply in the list a run returned has a Reply row with the
\* reply's id and content and is_delivered = TRUE, whatever the outcome
\* of the run.
C31_ReturnedRepliesPersisted ==
  \A p \in Procs :
    Done(p) =>
      \A k \in Indexes(run[p].returned) :
        \E i \in Indexes(replies) :
          /\ replies[i].id = run[p].returned[k].id
          /\ replies[i].content = run[p].returned[k].content
          /\ replies[i].is_delivered

\* C38: every Reply row written for the message of a finished run is in
\* the list the run returned; a run that returned the synthetic error
\* reply has written no Reply row.
C38_PersistedRepliesReturned ==
  \A p \in Procs :
    (Done(p) /\ run[p].message_id # 0) =>
      \A i \in ReplyRows(p) :
        \E k \in Indexes(run[p].returned) :
          run[p].returned[k].id = replies[i].id

\* C39: the number of minutes named in a busy reply whose status was read
\* some time after the HTTP 429 is between 1 and 30.
C39_MinutesInRange ==
  \A p \in Procs :
    (Done(p) /\ run[p].outcome = "busy" /\
     run[p].time_remaining < rate_limit_duration) =>
      (1 <= run[p].minutes_remaining /\ run[p].minutes_remaining <= 30)

\* C33: a persistence call makes at most three attempts; a further
\* attempt follows only a failure that says the database is locked; any
\* other failure, and the third locked one, makes the call raise at
\* once; a successful attempt inserts exactly one row and returns its
\* id; a call that raised has inserted no row.
C33_WriteRetries ==
  /\ [](/\ db_call.attempts <= 3
        /\ (db_call.pc = "raised" => Rows = db_call.rows_before)
        /\ (db_call.pc = "returned" => Rows = db_call.rows_before + 1))
  /\ [][/\ (db_call.pc = "backoff" /\ db_call'.pc = "attempt") =>
             Locked(db_call.last_error)
        /\ (db_call.pc = "attempt" /\ db_call'.pc \in {"backoff", "raised"}) =>
             /\ Rows' = Rows
             /\ (db_call'.pc = "raised" <=>
                   (~Locked(db_call'.last_error) \/ db_call.attempts = 3))
        /\ (db_call.pc = "attempt" /\ db_call'.pc = "returned") =>
             /\ Rows' = Rows + 1
             /\ IF db_call.op = "save_message"
                THEN /\ Len(messages') = Len(messages) + 1
                     /\ messages'[Len(messages')].id = db_call'.result
                ELSE /\ Len(replies') = Len(replies) + 1
                     /\ replies'[Len(replies')].id = db_call'.result]_vars

\* A call has raised after three attempts that found the database
\* locked, after an earlier call had inserted its row at the second
\* attempt.
C33_Witness ==
  /\ db_call.pc = "raised" /\ db_call.attempts = 3
  /\ Locked(db_call.last_error)
  /\ Rows = 1 /\ db_call.calls = 2

\* Handler positions between the receipt of a content frame and the
\* next receive.
Answering == Live \ {"running"}

\* C37: process_message never returns an empty list, and a handler
\* whose transport is open comes back to its receive only from the write
\* of a frame: the error frame of a refusal, of a validation error or of
\* a processing error, or the last reply of a list that is not empty.
C37_EveryContentFrameAnswered ==
  /\ [](\A p \in Procs : Done(p) => Len(run[p].returned) >= 1)
  /\ [][\A s \in Sess :
          (pc[s] \in Answering /\ pc'[s] = "running" /\ ws[s] = "open") =>
            \/ pc[s] \in {"sending_error", "validation_error",
                          "capacity_error", "processing_error"}
            \/ pc[s] = "writing" /\ replies_left[s] >= 1]_vars

\* Both handlers are back at their receive with an open transport, each
\* after the replies of a message were written, one of them the single
\* reply of a run that failed.
C37_Witness ==
  /\ \A s \in Sess : pc[s] = "running" /\ ws[s] = "open" /\ Done(s)
                     /\ replies_left[s] = 0
  /\ \E s \in Sess : Failed(s)

====
